---- MODULE Spec2Model ----
(***************************************************************************)
(* Model of deplister's dependency graph engine (DependencyGraph with      *)
(* FindAllPaths / CalculateDepth) and of the npm and Go scanners that      *)
(* resolve a dependency report from it.                                    *)
(***************************************************************************)
EXTENDS Integers, Sequences, FiniteSets, TLC

(***************************************************************************)
(* Node identities.  The npm root identity is the empty string.            *)
(***************************************************************************)
Root == ""

Ids == {"", "A", "B", "C"}

\* Bound: total number of adjacency entries of the edge map that is built.
MaxEdges == 4

\* Bound: total number of adjacency entries of the edge maps whose search is
\* followed call by call.
MaxDfsEdges == 3

\* Bound: the deepest nesting of findPaths calls the run-time stack holds.
MaxStack == 6

VARIABLES
  Edges,    \* DependencyGraph.Edges: identity -> adjacency list (<<>> when the key is absent)
  pc,       \* position of the program
  call,     \* the last graph call: its arguments and what it returned
  stack,    \* findPaths activations: [current, path, i], the innermost last
  visited,  \* the visited map FindAllPaths allocates and findPaths marks and clears
  results,  \* the slice behind the results pointer
  calls,    \* FindAllPaths calls running side by side: caller -> its private state
  scanner,  \* the scanner whose ScanDependencies runs: "npm" or "go"
  pkg,      \* package.json as read by readPackageJSON
  lockFile, \* package-lock.json as read by readPackageLock
  graph,    \* the scanner's private dependencyGraph
  mainModule, \* what findMainModule returned
  directDeps, \* what getDirectDependencies returned
  result,   \* the *ScanResult that ScanDependencies returns
  err       \* the error that ScanDependencies returns

engineVars == <<Edges, call>>
dfsVars == <<stack, visited, results, calls>>
scanVars == <<scanner, pkg, lockFile, graph, mainModule, directDeps, result, err>>
vars == <<Edges, pc, call, stack, visited, results, calls,
          scanner, pkg, lockFile, graph, mainModule, directDeps, result, err>>

(***************************************************************************)
(* Helpers                                                                 *)
(***************************************************************************)
Range(s) == {s[i] : i \in 1..Len(s)}

NoEdges == [n \in Ids |-> <<>>]

RECURSIVE SumLen(_, _)
SumLen(E, S) ==
  IF S = {} THEN 0
  ELSE LET n == CHOOSE m \in S : TRUE IN Len(E[n]) + SumLen(E, S \ {n})

EdgeCount(E) == SumLen(E, DOMAIN E)

HasEdge(E, p, n) == \E i \in 1..Len(E[p]) : E[p][i] = n

(***************************************************************************)
(* Faulty variants of findPaths, used to show that the properties below    *)
(* depend on the search.                                                   *)
(***************************************************************************)
\* Stops at the first adjacent node that yields a path.
RECURSIVE findPathsFirstOnly(_, _, _, _, _)
findPathsFirstOnly(E, current, target, path, seen) ==
  IF seen[current] THEN <<>>
  ELSE
    LET newPath == Append(path, current) IN
    IF current = target
    THEN << [Path |-> newPath, Depth |-> Len(newPath) - 1] >>
    ELSE
      LET marked == [seen EXCEPT ![current] = TRUE]
          RECURSIVE loop(_)
          loop(i) ==
            IF i > Len(E[current]) THEN <<>>
            ELSE LET found == findPathsFirstOnly(E, E[current][i], target, newPath, marked)
                 IN IF found # <<>> THEN found ELSE loop(i + 1)
      IN loop(1)

\* Counts the nodes of the path instead of its edges.
RECURSIVE findPathsDepthLen(_, _, _, _, _)
findPathsDepthLen(E, current, target, path, seen) ==
  IF seen[current] THEN <<>>
  ELSE
    LET newPath == Append(path, current) IN
    IF current = target
    THEN << [Path |-> newPath, Depth |-> Len(newPath)] >>
    ELSE
      LET marked == [seen EXCEPT ![current] = TRUE]
          RECURSIVE loop(_)
          loop(i) ==
            IF i > Len(E[current]) THEN <<>>
            ELSE findPathsDepthLen(E, E[current][i], target, newPath, marked) \o loop(i + 1)
      IN loop(1)

\* Does not mark the node the search starts from.
RECURSIVE findPathsUnmarkedStart(_, _, _, _, _)
findPathsUnmarkedStart(E, current, target, path, seen) ==
  IF seen[current] THEN <<>>
  ELSE
    LET newPath == Append(path, current) IN
    IF current = target
    THEN << [Path |-> newPath, Depth |-> Len(newPath) - 1] >>
    ELSE
      LET marked == IF path = <<>> THEN seen ELSE [seen EXCEPT ![current] = TRUE]
          RECURSIVE loop(_)
          loop(i) ==
            IF i > Len(E[current]) THEN <<>>
            ELSE findPathsUnmarkedStart(E, E[current][i], target, newPath, marked) \o loop(i + 1)
      IN loop(1)

\* Does not drop the nodes tried before from the path handed to the next
\* adjacent node.
RECURSIVE findPathsNoPop(_, _, _, _, _)
findPathsNoPop(E, current, target, path, seen) ==
  IF seen[current] THEN <<>>
  ELSE
    LET newPath == Append(path, current) IN
    IF current = target
    THEN << [Path |-> newPath, Depth |-> Len(newPath) - 1] >>
    ELSE
      LET marked == [seen EXCEPT ![current] = TRUE]
          RECURSIVE loop(_)
          loop(i) ==
            IF i > Len(E[current]) THEN <<>>
            ELSE findPathsNoPop(E, E[current][i], target,
                                newPath \o SubSeq(E[current], 1, i - 1), marked)
                 \o loop(i + 1)
      IN loop(1)

(***************************************************************************)
(* DependencyGraph.findPaths: depth-first search with a visited map that   *)
(* is marked on entry and cleared on exit.  The results pointer is         *)
(* modelled by the returned sequence: the paths appended by this call, in  *)
(* the order in which they are appended.                                   *)
(***************************************************************************)
\* Faulty variant: a target without an adjacency entry is taken for a missing
\* node and no path is recorded for it.
RECURSIVE findPathsKnownTargetOnly(_, _, _, _, _)
findPathsKnownTargetOnly(E, current, target, path, seen) ==
  IF seen[current] THEN <<>>
  ELSE LET newPath == Append(path, current) IN
    IF current = target
    THEN IF E[current] = <<>> THEN <<>>
         ELSE << [Path |-> newPath, Depth |-> Len(newPath) - 1] >>
    ELSE LET marked == [seen EXCEPT ![current] = TRUE]
             RECURSIVE loop(_)
             loop(i) == IF i > Len(E[current]) THEN <<>>
                        ELSE findPathsKnownTargetOnly(E, E[current][i], target, newPath, marked)
                               \o loop(i + 1)
         IN loop(1)

RECURSIVE findPaths(_, _, _, _, _)
findPaths(E, current, target, path, seen) ==
  IF seen[current] THEN <<>>
  ELSE
    LET newPath == Append(path, current) IN
    IF current = target
    THEN << [Path |-> newPath, Depth |-> Len(newPath) - 1] >>
    ELSE
      LET marked == [seen EXCEPT ![current] = TRUE]
          RECURSIVE loop(_)
          loop(i) ==
            IF i > Len(E[current]) THEN <<>>
            ELSE findPaths(E, E[current][i], target, newPath, marked) \o loop(i + 1)
      IN loop(1)

FindAllPaths(E, from, to) ==
  findPaths(E, from, to, <<>>, [n \in DOMAIN E |-> FALSE])

(***************************************************************************)
(* DependencyGraph.calculateMinDepth: backward recursion over the parents  *)
(* of name.  Every occurrence of name in an adjacency list is seen; the *)
(* order of the map iteration cannot change the minimum.                   *)
(***************************************************************************)
MinOf(S) == CHOOSE m \in S : \A k \in S : m <= k

RECURSIVE calculateMinDepth(_, _, _)
calculateMinDepth(E, name, seen) ==
  IF seen[name] THEN -1
  ELSE
    LET marked == [seen EXCEPT ![name] = TRUE]
        parentDepths ==
          {calculateMinDepth(E, parent, marked) :
             parent \in {p \in DOMAIN E : HasEdge(E, p, name)}}
        depths == {d + 1 : d \in parentDepths \ {-1}}
    IN IF depths = {} THEN -1 ELSE MinOf(depths)

CalculateDepth(E, name) ==
  calculateMinDepth(E, name, [n \in DOMAIN E |-> FALSE])

\* Faulty variant: the depth of the first path instead of the minimum.
FirstPathDepth(paths) ==
  IF paths = <<>> THEN -1 ELSE paths[1].Depth

\* minDepth as the scanners compute it from a list of paths (-1 when empty).
MinPathDepth(paths) ==
  IF paths = <<>> THEN -1 ELSE MinOf({paths[i].Depth : i \in 1..Len(paths)})

\* A nil result, a nil error, a value not yet read.
Nil == "nil"

\* The nil *ScanResult a scan returns together with an error.
NilResult == [nil |-> TRUE]

(***************************************************************************)
(* Iteration over a Go map.  The order of a range over a map is not fixed: *)
(* a scan draws one of two orders, each the reverse of the other, which    *)
(* puts any two keys in both orders.                                       *)
(***************************************************************************)
MapOrders == {"forward", "backward"}

Reverse(s) == [i \in 1..Len(s) |-> s[Len(s) + 1 - i]]

\* The keys of S in the order a range over the map yields them; universe
\* lists every possible key.
MapRange(S, universe, order) ==
  LET inOrder == SelectSeq(universe, LAMBDA k : k \in S)
  IN IF order = "forward" THEN inOrder ELSE Reverse(inOrder)

RECURSIVE Fold(_, _, _, _)
Fold(Op(_, _), acc, s, i) ==
  IF i > Len(s) THEN acc ELSE Fold(Op, Op(acc, s[i]), s, i + 1)

RECURSIVE Flatten(_)
Flatten(ss) == IF ss = <<>> THEN <<>> ELSE Head(ss) \o Flatten(Tail(ss))

(***************************************************************************)
(* The npm scanner.  A package-lock path is the sequence of its segments,  *)
(* "node_modules/A" being <<"node_modules", "A">>.                         *)
(***************************************************************************)
Names == {"A", "B"}

RootPath == <<>>

PkgPaths ==
  { <<"node_modules", "A">>,
    <<"node_modules", "B">>,
    <<"node_modules", "A", "node_modules", "B">> }

PathUniverse ==
  << RootPath,
     <<"node_modules", "A">>,
     <<"node_modules", "A", "node_modules", "B">>,
     <<"node_modules", "B">> >>

NpmIds == {"", "A", "B", "A/node_modules/B"}

NameUniverse == <<"", "A", "A/node_modules/B", "B", "M">>

\* Bound: entries declared in package.json, all sections together.
MaxDecl == 2

\* Bound: dependency entries of package-lock.json, all packages together.
MaxReq == 2

\* filepath.Base of a path that is not empty
Base(path) == path[Len(path)]

\* strings.TrimPrefix(name, "node_modules/")
TrimPrefix(path) ==
  IF Len(path) >= 2 /\ path[1] = "node_modules" THEN Tail(path) ELSE path

\* The path as the string it is in the lock file.
RECURSIVE Join(_)
Join(path) ==
  IF path = <<>> THEN ""
  ELSE IF Len(path) = 1 THEN path[1]
  ELSE path[1] \o "/" \o Join(Tail(path))

RECURSIVE SumCard(_, _)
SumCard(f, S) ==
  IF S = {} THEN 0
  ELSE LET k == CHOOSE m \in S : TRUE IN Cardinality(f[k]) + SumCard(f, S \ {k})

\* package.json: the keys of its four dependency sections.
PackageJSONs ==
  {p \in [Dependencies : SUBSET Names, DevDependencies : SUBSET Names,
          PeerDependencies : SUBSET Names, OptionalDependencies : SUBSET Names] :
     Cardinality(p.Dependencies) + Cardinality(p.DevDependencies)
       + Cardinality(p.PeerDependencies) + Cardinality(p.OptionalDependencies) <= MaxDecl}

\* PackageDep / LockDep: the keys of its dependencies (requires) and the dev flag.
PackageDeps == [Dependencies : SUBSET Names, Dev : BOOLEAN]

LockDeps == [Requires : SUBSET Names, Dev : BOOLEAN]

RootPackage == [Dependencies |-> {}, Dev |-> FALSE]

\* package-lock.json in the packages format: the root entry "" and any of PkgPaths.
PackagesMaps ==
  UNION {{m \in [{RootPath} \cup S -> PackageDeps] :
            /\ m[RootPath] = RootPackage
            /\ SumCard([k \in DOMAIN m |-> m[k].Dependencies], DOMAIN m) <= MaxReq} :
         S \in SUBSET PkgPaths}

\* package-lock.json in the legacy format: no packages, dependencies by name.
LegacyMaps ==
  UNION {{m \in [S -> LockDeps] :
            SumCard([k \in DOMAIN m |-> m[k].Requires], DOMAIN m) <= MaxReq} :
         S \in SUBSET Names}

EmptyMap == [k \in {} |-> {}]

PackageLocks ==
  {[Packages |-> m, Dependencies |-> EmptyMap] : m \in PackagesMaps}
    \cup {[Packages |-> EmptyMap, Dependencies |-> m] : m \in LegacyMaps}

\* Faulty variant: the first section that declares a name wins.
npmGetDirectDependenciesFirstWins(p) ==
  [n \in p.Dependencies |-> "production"]
    @@ [n \in p.DevDependencies |-> "development"]
    @@ [n \in p.PeerDependencies |-> "peer"]
    @@ [n \in p.OptionalDependencies |-> "optional"]

\* NPMScanner.getDirectDependencies: later sections overwrite earlier ones.
npmGetDirectDependencies(p) ==
  [n \in p.OptionalDependencies |-> "optional"]
    @@ [n \in p.PeerDependencies |-> "peer"]
    @@ [n \in p.DevDependencies |-> "development"]
    @@ [n \in p.Dependencies |-> "production"]

npmNewDependencyGraph ==
  [nodes |-> EmptyMap, edges |-> [n \in NpmIds |-> <<>>], metadata |-> EmptyMap]

\* graph.edges[from] = append(graph.edges[from], to...)
AppendEdges(edges, from, tos) == [edges EXCEPT ![from] = @ \o tos]

npmDependencyType(direct, name, dev) ==
  IF name \in DOMAIN direct THEN direct[name]
  ELSE IF dev THEN "development"
  ELSE "production"

\* Faulty variant: the root edge is added for production dependencies only.
npmAddPackageProductionEdge(g, direct, pkgPath, dep, order) ==
  IF pkgPath = RootPath THEN g
  ELSE IF Base(pkgPath) = "node_modules" THEN g
  ELSE
    LET name == Join(TrimPrefix(pkgPath))
        metadata == [dependencyType |-> npmDependencyType(direct, name, dep.Dev)]
        requires == MapRange(dep.Dependencies, NameUniverse, order)
        withDeps == AppendEdges(g.edges, name, requires)
        withRoot == IF name \in DOMAIN direct /\ direct[name] = "production"
                    THEN AppendEdges(withDeps, "", <<name>>)
                    ELSE withDeps
    IN [nodes |-> (name :> "&dep") @@ g.nodes,
        edges |-> withRoot,
        metadata |-> (name :> metadata) @@ g.metadata]

\* One iteration of the loop over lockFile.Packages.  Of graph.nodes only the
\* keys are read afterwards.
npmAddPackage(g, direct, pkgPath, dep, order) ==
  IF pkgPath = RootPath THEN g
  ELSE IF Base(pkgPath) = "node_modules" THEN g
  ELSE
    LET name == Join(TrimPrefix(pkgPath))
        metadata == [dependencyType |-> npmDependencyType(direct, name, dep.Dev)]
        requires == MapRange(dep.Dependencies, NameUniverse, order)
        withDeps == AppendEdges(g.edges, name, requires)
        withRoot == IF name \in DOMAIN direct
                    THEN AppendEdges(withDeps, "", <<name>>)
                    ELSE withDeps
    IN [nodes |-> (name :> "&dep") @@ g.nodes,
        edges |-> withRoot,
        metadata |-> (name :> metadata) @@ g.metadata]

\* One iteration of the loop over lockFile.Dependencies (legacy format):
\* graph.nodes is not written.
npmAddLockDep(g, direct, name, lockDep, order) ==
  LET metadata == [dependencyType |-> npmDependencyType(direct, name, lockDep.Dev)]
      requires == MapRange(lockDep.Requires, NameUniverse, order)
      withDeps == AppendEdges(g.edges, name, requires)
      withRoot == IF name \in DOMAIN direct
                  THEN AppendEdges(withDeps, "", <<name>>)
                  ELSE withDeps
  IN [nodes |-> g.nodes,
      edges |-> withRoot,
      metadata |-> (name :> metadata) @@ g.metadata]

\* NPMScanner.buildDependencyGraph
npmBuildDependencyGraph(p, lock, order) ==
  LET direct == npmGetDirectDependencies(p)
      addPackage(g, pkgPath) == npmAddPackage(g, direct, pkgPath, lock.Packages[pkgPath], order)
      addLockDep(g, name) == npmAddLockDep(g, direct, name, lock.Dependencies[name], order)
  IN IF Cardinality(DOMAIN lock.Packages) > 0
     THEN Fold(addPackage, npmNewDependencyGraph,
               MapRange(DOMAIN lock.Packages, PathUniverse, order), 1)
     ELSE Fold(addLockDep, npmNewDependencyGraph,
               MapRange(DOMAIN lock.Dependencies, NameUniverse, order), 1)

\* Faulty variant: the root is collected like any other parent.
npmParentsWithRoot(edges, name, order) ==
  LET keys == MapRange({k \in DOMAIN edges : edges[k] # <<>>}, NameUniverse, order)
      ofParent(parent) ==
        [i \in 1..Len(SelectSeq(edges[parent], LAMBDA child : child = name)) |-> parent]
  IN Flatten([i \in 1..Len(keys) |-> ofParent(keys[i])])

\* The loops that collect the immediate parents of name (npm: parent != "").
npmParents(edges, name, order) ==
  LET keys == MapRange({k \in DOMAIN edges : edges[k] # <<>>}, NameUniverse, order)
      ofParent(parent) ==
        IF parent = "" THEN <<>>
        ELSE [i \in 1..Len(SelectSeq(edges[parent], LAMBDA child : child = name)) |-> parent]
  IN Flatten([i \in 1..Len(keys) |-> ofParent(keys[i])])

\* The body of the loop of ScanDependencies that converts one node.
npmDependency(g, direct, name, order) ==
  LET paths == FindAllPaths(g.edges, "", name)
      parents == npmParents(g.edges, name, order)
      props == [manager |-> "npm"] @@
                 (IF name \in DOMAIN g.metadata THEN g.metadata[name] ELSE EmptyMap)
  IN [Name |-> name,
      Type |-> "npm",
      IsDirectDep |-> name \in DOMAIN direct,
      Parent |-> IF Len(parents) > 0 THEN parents[1] ELSE "",
      Parents |-> parents,
      Paths |-> paths,
      Properties |-> props,
      Depth |-> MinPathDepth(paths)]

\* NPMScanner.ScanDependencies from buildDependencyGraph on: <<result, err>>.
npmResolve(g, direct, order) ==
  LET names == SelectSeq(MapRange(DOMAIN g.nodes, NameUniverse, order), LAMBDA n : n # "")
      deps == [i \in 1..Len(names) |-> npmDependency(g, direct, names[i], order)]
  IN IF Len(deps) = 0
     THEN <<NilResult, "ErrInvalidProject">>
     ELSE << [Dependencies |-> deps,
              Graph |-> [Nodes |-> [n \in Range(names) |->
                                      npmDependency(g, direct, n, order)],
                         Edges |-> g.edges]],
             Nil >>

(***************************************************************************)
(* The Go scanner.  A token of a `go mod graph` line is the sequence of    *)
(* its parts around "@": "A@v1" is <<"A", "v1">>, the main module <<"M">>. *)
(* A line is the sequence of its fields.                                   *)
(***************************************************************************)
GoIds == {"M", "A", "B"}

\* Bound: lines of the `go mod graph` output.
MaxGraphLines == 3

GraphTokens == { <<"M">>, <<"A", "v1">>, <<"A", "v2">>, <<"B", "v1">> }

GraphLines ==
  {<<from, to>> : from \in GraphTokens, to \in { <<"A", "v1">>, <<"B", "v1">> }}
    \cup { << <<"M">> >> }

GraphOutputs == UNION {[1..n -> GraphLines] : n \in 0..MaxGraphLines}

\* `go list -m -json all`: the main module first, then the modules it needs.
ModuleRecords(path, main) ==
  { <<>> } \cup { << [Path |-> path, Main |-> main, Indirect |-> ind] >> :
                    ind \in (IF main THEN {FALSE} ELSE BOOLEAN) }

ListOutputs ==
  {m \o a \o b : m \in ModuleRecords("M", TRUE),
                 a \in ModuleRecords("A", FALSE),
                 b \in ModuleRecords("B", FALSE)}

\* go.mod files, each line the sequence of its fields.
GoModFiles ==
  { << <<"module", "M">>, <<"go", "1.20">> >>,
    << <<"module", "M">>, <<"go", "1.20">>, <<"require", "(">>,
       <<"A", "v1">>, <<"B", "v1", "//", "indirect">>, <<")">> >>,
    << <<"module", "M">>, <<"require", "A", "v1">>,
       <<"replace", "A", "=>", "X", "v1">> >>,
    << <<"module", "M">>, <<"require", "(">>, <<"A", "v1">>, <<"B", "v1">>, <<")">> >>,
    << <<"require", "B", "v1">>, <<"require", "A", "v1", "//", "indirect">> >>,
    << <<"//", "tools">>, <<>>, <<"require", "(">>,
       <<"A", "v1", "//", "indirect">>, <<"B", "v1", "//", "indirect">>, <<")">>,
       <<"replace", "(">>, <<"B", "=>", "X", "v1">>, <<")">> >> }

\* strings.Contains(line, "// indirect")
ContainsIndirect(fields) ==
  \E i \in 1..(Len(fields) - 1) : fields[i] = "//" /\ fields[i + 1] = "indirect"

\* One line of the loop of getDirectDependencies; st = [direct, inRequireBlock].
goModLine(st, fields) ==
  IF fields = <<>> \/ fields[1] = "//" THEN st
  ELSE IF fields[1] = "require" /\ Len(fields) >= 2 /\ fields[Len(fields)] # "("
  THEN IF ~ContainsIndirect(fields)
       THEN [st EXCEPT !.direct = @ \cup {fields[2]}]
       ELSE st
  ELSE IF fields = <<"require", "(">> THEN [st EXCEPT !.inRequireBlock = TRUE]
  ELSE IF fields = <<")">> THEN [st EXCEPT !.inRequireBlock = FALSE]
  ELSE IF st.inRequireBlock /\ ~ContainsIndirect(fields)
  THEN [st EXCEPT !.direct = @ \cup {fields[1]}]
  ELSE st

\* GoScanner.getDirectDependencies: the keys of the map it returns.
goGetDirectDependencies(lines) ==
  Fold(goModLine, [direct |-> {}, inRequireBlock |-> FALSE], lines, 1).direct

goNewDependencyGraph ==
  [nodes |-> EmptyMap, edges |-> [n \in GoIds |-> <<>>], metadata |-> EmptyMap]

\* One decoded ModuleInfo of the `go list` output.
goAddModule(g, info) ==
  [g EXCEPT
     !.nodes = (info.Path :> info) @@ g.nodes,
     !.metadata = (info.Path :>
                     [dependencyType |-> IF info.Indirect THEN "indirect" ELSE "direct"])
                  @@ g.metadata]

\* strings.Split(mod, "@")[0]
StripVersion(token) == token[1]

\* One line of the `go mod graph` output.
goAddGraphLine(g, parts) ==
  IF Len(parts) # 2 THEN g
  ELSE [g EXCEPT !.edges = AppendEdges(g.edges, StripVersion(parts[1]),
                                       <<StripVersion(parts[2])>>)]

\* GoScanner.buildDependencyGraph when both commands succeed and decode.
goBuildDependencyGraph(listOutput, graphOutput) ==
  Fold(goAddGraphLine, Fold(goAddModule, goNewDependencyGraph, listOutput, 1),
       graphOutput, 1)

\* GoScanner.findMainModule: the first main module the range yields.
goFindMainModule(g, order) ==
  LET mains == SelectSeq(MapRange(DOMAIN g.nodes, NameUniverse, order),
                         LAMBDA path : g.nodes[path].Main)
  IN IF mains = <<>> THEN "" ELSE mains[1]

\* Faulty variant: the search stops at the first parent found.
goParentsFirstOnly(edges, modPath, main, order) ==
  LET keys == MapRange({k \in DOMAIN edges : edges[k] # <<>>}, NameUniverse, order)
      ofParent(parent) ==
        IF parent = main THEN <<>>
        ELSE [i \in 1..Len(SelectSeq(edges[parent], LAMBDA child : child = modPath)) |-> parent]
      all == Flatten([i \in 1..Len(keys) |-> ofParent(keys[i])])
  IN IF all = <<>> THEN <<>> ELSE <<all[1]>>

\* The loops that collect the immediate parents of modPath (parent != mainModule).
goParents(edges, modPath, main, order) ==
  LET keys == MapRange({k \in DOMAIN edges : edges[k] # <<>>}, NameUniverse, order)
      ofParent(parent) ==
        IF parent = main THEN <<>>
        ELSE [i \in 1..Len(SelectSeq(edges[parent], LAMBDA child : child = modPath)) |-> parent]
  IN Flatten([i \in 1..Len(keys) |-> ofParent(keys[i])])

\* Faulty variant: the manifest alone decides IsDirectDep.
goDependencyManifestOnly(g, main, direct, modPath, order) ==
  LET info == g.nodes[modPath]
      paths == FindAllPaths(g.edges, main, modPath)
      parents == goParents(g.edges, modPath, main, order)
      props == [manager |-> "go",
                dependencyType |-> IF ~info.Indirect THEN "direct" ELSE "indirect"]
                 @@ g.metadata[modPath]
  IN [Name |-> info.Path,
      Type |-> "go",
      IsDirectDep |-> modPath \in direct,
      Parent |-> IF Len(parents) > 0 THEN parents[1] ELSE "",
      Parents |-> parents,
      Paths |-> paths,
      Properties |-> props,
      Depth |-> MinPathDepth(paths)]

\* The body of the loop of ScanDependencies that converts one module.
goDependency(g, main, direct, modPath, order) ==
  LET info == g.nodes[modPath]
      paths == FindAllPaths(g.edges, main, modPath)
      parents == goParents(g.edges, modPath, main, order)
      props == [manager |-> "go",
                dependencyType |-> IF ~info.Indirect THEN "direct" ELSE "indirect"]
                 @@ g.metadata[modPath]
  IN [Name |-> info.Path,
      Type |-> "go",
      IsDirectDep |-> ~info.Indirect /\ modPath \in direct,
      Parent |-> IF Len(parents) > 0 THEN parents[1] ELSE "",
      Parents |-> parents,
      Paths |-> paths,
      Properties |-> props,
      Depth |-> MinPathDepth(paths)]

\* Faulty variant: the enumeration uses up the adjacency list of the main
\* module, and the result is handed what is left of the edge map.
goResolveConsumesEdges(g, main, direct, order) ==
  LET paths == SelectSeq(MapRange(DOMAIN g.nodes, NameUniverse, order),
                         LAMBDA path : path # main)
      deps == [i \in 1..Len(paths) |-> goDependency(g, main, direct, paths[i], order)]
  IN IF Len(deps) = 0
     THEN <<NilResult, "ErrInvalidProject">>
     ELSE << [Dependencies |-> deps,
              Graph |-> [Nodes |-> [n \in Range(paths) |->
                                      goDependency(g, main, direct, n, order)],
                         Edges |-> [g.edges EXCEPT ![main] = <<>>]]],
             Nil >>

\* Faulty variant: the main module is converted like any other node.
goResolveWithMain(g, main, direct, order) ==
  LET paths == MapRange(DOMAIN g.nodes, NameUniverse, order)
      deps == [i \in 1..Len(paths) |-> goDependency(g, main, direct, paths[i], order)]
  IN IF Len(deps) = 0
     THEN <<NilResult, "ErrInvalidProject">>
     ELSE << [Dependencies |-> deps,
              Graph |-> [Nodes |-> [n \in Range(paths) |->
                                      goDependency(g, main, direct, n, order)],
                         Edges |-> g.edges]],
             Nil >>

\* Faulty variant: the final check for an empty result is left out.
goResolveNoCheck(g, main, direct, order) ==
  LET paths == SelectSeq(MapRange(DOMAIN g.nodes, NameUniverse, order),
                         LAMBDA path : path # main)
      deps == [i \in 1..Len(paths) |-> goDependency(g, main, direct, paths[i], order)]
  IN << [Dependencies |-> deps,
         Graph |-> [Nodes |-> [n \in Range(paths) |->
                                 goDependency(g, main, direct, n, order)],
                    Edges |-> g.edges]],
        Nil >>

\* GoScanner.ScanDependencies from the loop over graph.nodes on: <<result, err>>.
goResolve(g, main, direct, order) ==
  LET paths == SelectSeq(MapRange(DOMAIN g.nodes, NameUniverse, order),
                         LAMBDA path : path # main)
      deps == [i \in 1..Len(paths) |-> goDependency(g, main, direct, paths[i], order)]
  IN IF Len(deps) = 0
     THEN <<NilResult, "ErrInvalidProject">>
     ELSE << [Dependencies |-> deps,
              Graph |-> [Nodes |-> [n \in Range(paths) |->
                                      goDependency(g, main, direct, n, order)],
                         Edges |-> g.edges]],
             Nil >>

(***************************************************************************)
(* The graph engine as a state machine: the collector appends edges, then  *)
(* the graph is queried.                                                   *)
(***************************************************************************)
NoCall == [op |-> "none"]

\* The callers that run FindAllPaths side by side.
Callers == {"c1", "c2"}

IdleCall == [pc |-> "ready", to |-> Root, stack |-> <<>>,
             visited |-> [n \in Ids |-> FALSE], results |-> <<>>]

DfsIdle ==
  /\ stack = <<>>
  /\ visited = [n \in Ids |-> FALSE]
  /\ results = <<>>
  /\ calls = [c \in Callers |-> IdleCall]

ScanIdle ==
  /\ scanner = "none"
  /\ pkg = Nil
  /\ lockFile = Nil
  /\ graph = Nil
  /\ mainModule = Nil
  /\ directDeps = Nil
  /\ result = NilResult
  /\ err = Nil

Init ==
  /\ Edges = NoEdges
  /\ pc = "build"
  /\ call = NoCall
  /\ DfsIdle
  /\ ScanIdle

\* graph.edges[from] = append(graph.edges[from], to)
AddEdge(from, to) ==
  /\ pc = "build"
  /\ EdgeCount(Edges) < MaxEdges
  /\ Edges' = [Edges EXCEPT ![from] = Append(@, to)]
  /\ UNCHANGED <<pc, call, dfsVars, scanVars>>

CallFindAllPaths(from, to) ==
  /\ pc = "build"
  /\ pc' = "FindAllPaths"
  /\ call' = [op |-> "FindAllPaths", from |-> from, to |-> to,
              paths |-> FindAllPaths(Edges, from, to)]
  /\ UNCHANGED <<Edges, dfsVars, scanVars>>

CallCalculateDepth(name) ==
  /\ pc = "build"
  /\ pc' = "CalculateDepth"
  /\ call' = [op |-> "CalculateDepth", name |-> name,
              depth |-> CalculateDepth(Edges, name)]
  /\ UNCHANGED <<Edges, dfsVars, scanVars>>

Next ==
  \/ \E from \in Ids, to \in Ids : AddEdge(from, to)
  \/ \E from \in Ids, to \in Ids : CallFindAllPaths(from, to)
  \/ \E name \in Ids : CallCalculateDepth(name)

Spec == Init /\ [][Next]_vars

(***************************************************************************)
(* FindAllPaths call by call: every activation of findPaths is a frame     *)
(* [current, path, i] where i = 0 before the body has run and otherwise    *)
(* the index of the next adjacent node of the for loop.  visited and       *)
(* results are the map and the slice that all activations of one           *)
(* FindAllPaths call share.                                                *)
(***************************************************************************)
DfsIds == {"", "A", "B"}

\* The edge maps over DfsIds with at most n adjacency entries.
RECURSIVE EdgeMaps(_)
EdgeMaps(n) ==
  IF n = 0 THEN {NoEdges}
  ELSE LET smaller == EdgeMaps(n - 1) IN
       smaller \cup
         {[E EXCEPT ![from] = Append(@, to)] :
            E \in {G \in smaller : EdgeCount(G) = n - 1}, from \in DfsIds, to \in DfsIds}

InitDfs ==
  /\ Edges \in EdgeMaps(MaxDfsEdges)
  /\ pc = "ready"
  /\ call = NoCall
  /\ DfsIdle
  /\ ScanIdle

Top == stack[Len(stack)]

Pop == SubSeq(stack, 1, Len(stack) - 1)

\* Faulty variant: the node is never marked.
MarkNothing(v, current) == v

\* visited[current] = true
Mark(v, current) == [v EXCEPT ![current] = TRUE]

\* visited[current] = false
Unmark(v, current) == [v EXCEPT ![current] = FALSE]

\* visited := make(map[string]bool); var paths; g.findPaths(from, to, []string{}, visited, &paths)
DfsStart(from, to) ==
  /\ pc = "ready"
  /\ pc' = "findPaths"
  /\ call' = [op |-> "FindAllPaths", from |-> from, to |-> to]
  /\ visited' = [n \in Ids |-> FALSE]
  /\ results' = <<>>
  /\ stack' = << [current |-> from, path |-> <<>>, i |-> 0] >>
  /\ UNCHANGED <<Edges, calls, scanVars>>

\* The body of findPaths up to the for loop.
DfsEnter ==
  /\ pc = "findPaths"
  /\ stack # <<>>
  /\ Top.i = 0
  /\ LET current == Top.current
         newPath == Append(Top.path, current)
     IN IF visited[current]
        THEN /\ stack' = Pop
             /\ UNCHANGED <<visited, results>>
        ELSE IF current = call.to
        THEN /\ results' = Append(results, [Path |-> newPath, Depth |-> Len(newPath) - 1])
             /\ stack' = Pop
             /\ UNCHANGED visited
        ELSE /\ visited' = Mark(visited, current)
             /\ stack' = [stack EXCEPT ![Len(stack)].i = 1]
             /\ UNCHANGED results
  /\ UNCHANGED <<Edges, pc, call, calls, scanVars>>

\* One iteration of the for loop: the recursive call for the next adjacent
\* node.  A call that the stack cannot hold ends the program.
DfsLoop ==
  /\ pc = "findPaths"
  /\ stack # <<>>
  /\ Top.i >= 1
  /\ Top.i <= Len(Edges[Top.current])
  /\ IF Len(stack) >= MaxStack
     THEN /\ pc' = "stack overflow"
          /\ UNCHANGED stack
     ELSE /\ stack' = Append([stack EXCEPT ![Len(stack)].i = @ + 1],
                             [current |-> Edges[Top.current][Top.i],
                              path |-> Append(Top.path, Top.current),
                              i |-> 0])
          /\ UNCHANGED pc
  /\ UNCHANGED <<Edges, call, visited, results, calls, scanVars>>

\* The for loop is over: visited[current] = false and return.
DfsLeave ==
  /\ pc = "findPaths"
  /\ stack # <<>>
  /\ Top.i > Len(Edges[Top.current])
  /\ visited' = Unmark(visited, Top.current)
  /\ stack' = Pop
  /\ UNCHANGED <<Edges, pc, call, results, calls, scanVars>>

\* return paths
DfsReturn ==
  /\ pc = "findPaths"
  /\ stack = <<>>
  /\ pc' = "returned"
  /\ call' = [op |-> "FindAllPaths", from |-> call.from, to |-> call.to,
              paths |-> results]
  /\ UNCHANGED <<Edges, dfsVars, scanVars>>

DfsStep == DfsEnter \/ DfsLoop \/ DfsLeave \/ DfsReturn

NextDfs ==
  \/ \E from \in DfsIds, to \in DfsIds : DfsStart(from, to)
  \/ DfsEnter
  \/ DfsLoop
  \/ DfsLeave
  \/ DfsReturn

\* The call runs to completion: no step of it waits for anything.
SpecDfs == InitDfs /\ [][NextDfs]_vars /\ WF_vars(DfsStep)

(***************************************************************************)
(* FindAllPaths calls for different targets running side by side on one    *)
(* graph, as when the targets of a scan are enumerated in parallel.  Each  *)
(* caller has the visited map and the results slice its own FindAllPaths   *)
(* call allocates; a step of a caller is a step of its findPaths.          *)
(***************************************************************************)
\* Bound: adjacency entries of the graphs the side-by-side calls run on.
MaxParEdges == 3

InitPar ==
  /\ Edges \in EdgeMaps(MaxParEdges)
  /\ pc = "parallel"
  /\ call = NoCall
  /\ DfsIdle
  /\ ScanIdle

\* Faulty variant: one visited map for all callers.
VisitedShared(cs, c) == [n \in Ids |-> \E d \in Callers : cs[d].visited[n]]

\* The visited map findPaths of caller c reads: the one its FindAllPaths made.
VisitedOf(cs, c) == cs[c].visited

ParTop(c) == calls[c].stack[Len(calls[c].stack)]

ParPop(c) == SubSeq(calls[c].stack, 1, Len(calls[c].stack) - 1)

parUnchanged == <<Edges, pc, call, stack, visited, results, scanVars>>

\* Every caller calls FindAllPaths(root, target) for a target of its own.
ParStart(targets) ==
  /\ \A c \in Callers : calls[c].pc = "ready"
  /\ \A c, d \in Callers : c # d => targets[c] # targets[d]
  /\ calls' = [c \in Callers |->
                 [pc |-> "findPaths", to |-> targets[c],
                  stack |-> << [current |-> Root, path |-> <<>>, i |-> 0] >>,
                  visited |-> [n \in Ids |-> FALSE],
                  results |-> <<>>]]
  /\ UNCHANGED parUnchanged

\* The body of findPaths up to the for loop, for caller c.
ParEnter(c) ==
  /\ calls[c].pc = "findPaths"
  /\ calls[c].stack # <<>>
  /\ ParTop(c).i = 0
  /\ LET current == ParTop(c).current
         newPath == Append(ParTop(c).path, current)
     IN IF VisitedOf(calls, c)[current]
        THEN calls' = [calls EXCEPT ![c].stack = ParPop(c)]
        ELSE IF current = calls[c].to
        THEN calls' = [calls EXCEPT
                         ![c].results = Append(@, [Path |-> newPath,
                                                   Depth |-> Len(newPath) - 1]),
                         ![c].stack = ParPop(c)]
        ELSE calls' = [calls EXCEPT
                         ![c].visited = Mark(@, current),
                         ![c].stack = [@ EXCEPT ![Len(@)].i = 1]]
  /\ UNCHANGED parUnchanged

\* One iteration of the for loop of caller c.
ParLoop(c) ==
  /\ calls[c].pc = "findPaths"
  /\ calls[c].stack # <<>>
  /\ ParTop(c).i >= 1
  /\ ParTop(c).i <= Len(Edges[ParTop(c).current])
  /\ IF Len(calls[c].stack) >= MaxStack
     THEN calls' = [calls EXCEPT ![c].pc = "stack overflow"]
     ELSE calls' = [calls EXCEPT
                      ![c].stack = Append([@ EXCEPT ![Len(@)].i = @ + 1],
                                          [current |-> Edges[ParTop(c).current][ParTop(c).i],
                                           path |-> Append(ParTop(c).path, ParTop(c).current),
                                           i |-> 0])]
  /\ UNCHANGED parUnchanged

\* The for loop of caller c is over: visited[current] = false and return.
ParLeave(c) ==
  /\ calls[c].pc = "findPaths"
  /\ calls[c].stack # <<>>
  /\ ParTop(c).i > Len(Edges[ParTop(c).current])
  /\ calls' = [calls EXCEPT ![c].visited = Unmark(@, ParTop(c).current),
                            ![c].stack = ParPop(c)]
  /\ UNCHANGED parUnchanged

\* return paths
ParReturn(c) ==
  /\ calls[c].pc = "findPaths"
  /\ calls[c].stack = <<>>
  /\ calls' = [calls EXCEPT ![c].pc = "returned"]
  /\ UNCHANGED parUnchanged

NextPar ==
  \/ \E targets \in [Callers -> DfsIds] : ParStart(targets)
  \/ \E c \in Callers : ParEnter(c)
  \/ \E c \in Callers : ParLoop(c)
  \/ \E c \in Callers : ParLeave(c)
  \/ \E c \in Callers : ParReturn(c)

SpecPar == InitPar /\ [][NextPar]_vars

(***************************************************************************)
(* ScanDependencies of the two scanners.  Each step is one call of the     *)
(* handler that reads the project directory or runs a tool; what it reads  *)
(* is drawn when it reads it.                                              *)
(***************************************************************************)
\* props := graph.metadata[name]; props["manager"] = ...: the map of the
\* scanner's graph is the map the record gets, written in place.
WithProperties(g, r) ==
  IF r[2] # Nil THEN g
  ELSE [g EXCEPT !.metadata =
          [n \in DOMAIN g.metadata |->
             IF n \in DOMAIN r[1].Graph.Nodes
             THEN r[1].Graph.Nodes[n].Properties
             ELSE g.metadata[n]]]

InitScan ==
  /\ Edges = NoEdges
  /\ pc = "start"
  /\ call = NoCall
  /\ DfsIdle
  /\ ScanIdle

\* Faulty variant: the result built so far is returned with the error.
FailWithResult(e) ==
  /\ pc' = "done"
  /\ result' = [Dependencies |-> <<>>, Graph |-> [Nodes |-> EmptyMap, Edges |-> NoEdges]]
  /\ err' = e

\* return nil, e
Fail(e) ==
  /\ pc' = "done"
  /\ result' = NilResult
  /\ err' = e

\* if !s.DetectProject(ctx, dir) { return nil, ErrProjectNotFound }
NpmDetectProject ==
  /\ pc = "start"
  /\ scanner' = "npm"
  /\ \/ /\ pc' = "readPackageJSON"
        /\ UNCHANGED <<result, err>>
     \/ Fail("ErrProjectNotFound")
  /\ UNCHANGED <<engineVars, dfsVars, pkg, lockFile, graph, mainModule, directDeps>>

\* pkg, err := s.readPackageJSON(dir)
NpmReadPackageJSON ==
  /\ pc = "readPackageJSON"
  /\ \/ /\ pkg' \in PackageJSONs
        /\ pc' = "readPackageLock"
        /\ UNCHANGED <<result, err>>
     \/ /\ Fail("package.json: read or parse error")
        /\ UNCHANGED pkg
  /\ UNCHANGED <<engineVars, dfsVars, scanner, lockFile, graph, mainModule, directDeps>>

\* lockFile, err := s.readPackageLock(dir)
NpmReadPackageLock ==
  /\ pc = "readPackageLock"
  /\ \/ /\ lockFile' \in PackageLocks
        /\ pc' = "npmResolve"
        /\ UNCHANGED <<result, err>>
     \/ /\ Fail("package-lock.json: read or parse error")
        /\ UNCHANGED lockFile
  /\ UNCHANGED <<engineVars, dfsVars, scanner, pkg, graph, mainModule, directDeps>>

\* buildDependencyGraph, getDirectDependencies and the conversion of the graph.
NpmResolve ==
  /\ pc = "npmResolve"
  /\ \E order \in MapOrders :
       LET g == npmBuildDependencyGraph(pkg, lockFile, order)
           direct == npmGetDirectDependencies(pkg)
           r == npmResolve(g, direct, order)
       IN /\ graph' = WithProperties(g, r)
          /\ directDeps' = direct
          /\ result' = r[1]
          /\ err' = r[2]
  /\ pc' = "done"
  /\ UNCHANGED <<engineVars, dfsVars, scanner, pkg, lockFile, mainModule>>

GoDetectProject ==
  /\ pc = "start"
  /\ scanner' = "go"
  /\ \/ /\ pc' = "buildDependencyGraph"
        /\ UNCHANGED <<result, err>>
     \/ Fail("ErrProjectNotFound")
  /\ UNCHANGED <<engineVars, dfsVars, pkg, lockFile, graph, mainModule, directDeps>>

\* graph, err := s.buildDependencyGraph(ctx, dir)
GoBuildDependencyGraph ==
  /\ pc = "buildDependencyGraph"
  /\ \/ /\ \E listOutput \in ListOutputs, graphOutput \in GraphOutputs :
             graph' = goBuildDependencyGraph(listOutput, graphOutput)
        /\ pc' = "findMainModule"
        /\ UNCHANGED <<result, err>>
     \/ /\ Fail("ErrScanFailed")
        /\ UNCHANGED graph
     \/ /\ Fail("ErrInvalidProject")
        /\ UNCHANGED graph
  /\ UNCHANGED <<engineVars, dfsVars, scanner, pkg, lockFile, mainModule, directDeps>>

\* mainModule := s.findMainModule(graph)
GoFindMainModule ==
  /\ pc = "findMainModule"
  /\ \E order \in MapOrders :
       LET main == goFindMainModule(graph, order) IN
         /\ mainModule' = main
         /\ IF main = ""
            THEN Fail("ErrInvalidProject")
            ELSE /\ pc' = "getDirectDependencies"
                 /\ UNCHANGED <<result, err>>
  /\ UNCHANGED <<engineVars, dfsVars, scanner, pkg, lockFile, graph, directDeps>>

\* directDeps, err := s.getDirectDependencies(dir)
GoGetDirectDependencies ==
  /\ pc = "getDirectDependencies"
  /\ \/ /\ \E lines \in GoModFiles : directDeps' = goGetDirectDependencies(lines)
        /\ pc' = "goResolve"
        /\ UNCHANGED <<result, err>>
     \/ /\ Fail("go.mod: read error")
        /\ UNCHANGED directDeps
  /\ UNCHANGED <<engineVars, dfsVars, scanner, pkg, lockFile, graph, mainModule>>

\* The loop over graph.nodes and the final check.
GoResolve ==
  /\ pc = "goResolve"
  /\ \E order \in MapOrders :
       LET r == goResolve(graph, mainModule, directDeps, order)
       IN /\ graph' = WithProperties(graph, r)
          /\ result' = r[1]
          /\ err' = r[2]
  /\ pc' = "done"
  /\ UNCHANGED <<engineVars, dfsVars, scanner, pkg, lockFile, mainModule, directDeps>>

NextScan ==
  \/ NpmDetectProject
  \/ NpmReadPackageJSON
  \/ NpmReadPackageLock
  \/ NpmResolve
  \/ GoDetectProject
  \/ GoBuildDependencyGraph
  \/ GoFindMainModule
  \/ GoGetDirectDependencies
  \/ GoResolve

SpecScan == InitScan /\ [][NextScan]_vars

(***************************************************************************)
(* Reference definitions the results are compared with.  They are built    *)
(* from sets, not by the depth-first search.                               *)
(***************************************************************************)
Last(s) == s[Len(s)]

NoRepeat(s) == \A i, j \in 1..Len(s) : i # j => s[i] # s[j]

IsWalk(E, s) == \A i \in 1..(Len(s) - 1) : HasEdge(E, s[i], s[i + 1])

\* Every simple path of E that starts at from: grown one edge at a time.
RECURSIVE GrowSimple(_, _, _)
GrowSimple(E, frontier, acc) ==
  IF frontier = {} THEN acc
  ELSE
    LET next == UNION {{Append(p, x) : x \in Range(E[Last(p)]) \ Range(p)} : p \in frontier}
    IN GrowSimple(E, next, acc \cup next)

SimplePathsFrom(E, from) == GrowSimple(E, {<<from>>}, {<<from>>})

SimplePaths(E, from, to) == {p \in SimplePathsFrom(E, from) : Last(p) = to}

\* Breadth-first sweep: the set of nodes at each distance from the start.
RECURSIVE BFSDepth(_, _, _, _, _)
BFSDepth(E, frontier, seen, to, d) ==
  IF to \in frontier THEN d
  ELSE IF frontier = {} THEN -1
  ELSE
    LET next == UNION {Range(E[n]) : n \in frontier} \ seen
    IN BFSDepth(E, next, seen \cup next, to, d + 1)

ShortestDepth(E, from, to) == BFSDepth(E, {from}, {from}, to, 0)

Reachable(E, from, to) == ShortestDepth(E, from, to) # -1

PathSet(paths) == {paths[i].Path : i \in 1..Len(paths)}

Parents(E, n) == {p \in DOMAIN E : HasEdge(E, p, n)}

Returned == pc = "FindAllPaths"

DfsReturned == pc = "returned"

(***************************************************************************)
(* C2: FindAllPaths(root, target) is exhaustive: every simple path of the  *)
(* edge map from root to target is one of the returned paths.              *)
(***************************************************************************)
C2_Exhaustive ==
  Returned =>
    \A p \in SimplePaths(Edges, call.from, call.to) : p \in PathSet(call.paths)

\* The diamond root->{A,B}, A->C, B->C was asked for C and both routes came back.
C2_Witness ==
  /\ Returned
  /\ call.from = Root /\ call.to = "C"
  /\ Edges[Root] = <<"A", "B">> /\ Edges["A"] = <<"C">> /\ Edges["B"] = <<"C">>
  /\ PathSet(call.paths) = {<<Root, "A", "C">>, <<Root, "B", "C">>}

(***************************************************************************)
(* C3: every returned path starts at from, ends at to, follows edges of    *)
(* Edges and has Depth = len(Path) - 1; nothing is returned when to is not *)
(* reachable from from.                                                    *)
(***************************************************************************)
C3_PathsWellFormed ==
  Returned =>
    /\ \A i \in 1..Len(call.paths) :
         LET p == call.paths[i] IN
           /\ Len(p.Path) >= 1
           /\ p.Path[1] = call.from
           /\ Last(p.Path) = call.to
           /\ IsWalk(Edges, p.Path)
           /\ p.Depth = Len(p.Path) - 1
    /\ (~Reachable(Edges, call.from, call.to) => call.paths = <<>>)

\* A path over two edges was returned.
C3_Witness ==
  /\ Returned
  /\ \E i \in 1..Len(call.paths) : call.paths[i].Depth = 2 /\ Len(call.paths[i].Path) = 3

(***************************************************************************)
(* C4: no identity occurs twice in a returned path and the target occurs   *)
(* only as its last element, also when the target has outgoing edges.      *)
(***************************************************************************)
C4_SimpleAndStopsAtTarget ==
  Returned =>
    \A i \in 1..Len(call.paths) :
      LET p == call.paths[i].Path IN
        /\ NoRepeat(p)
        /\ \A k \in 1..(Len(p) - 1) : p[k] # call.to

\* The target has an edge back into the path that reached it.
C4_Witness ==
  /\ Returned
  /\ call.from # call.to
  /\ call.paths # <<>>
  /\ \E i \in 1..Len(call.paths) :
       \E x \in Range(Edges[call.to]) : x \in Range(call.paths[i].Path)

(***************************************************************************)
(* C6: CalculateDepth(N) returns the minimum depth of N, the minimum Depth *)
(* over FindAllPaths(root, N), and -1 exactly when there is no path.       *)
(* Stated for the dependencies N (the nodes other than the root).          *)
(***************************************************************************)
C6_DepthAlgorithmsAgree ==
  (pc = "CalculateDepth" /\ call.name # Root) =>
    call.depth = MinPathDepth(FindAllPaths(Edges, Root, call.name))

(***************************************************************************)
(* C7: for every dependency D to which the root has a direct edge,         *)
(* FindAllPaths(root, D) holds exactly one path of length 1, [root, D],    *)
(* and the minimum depth of D is 1.                                        *)
(***************************************************************************)
C7_DirectHasOnePath ==
  (Returned /\ call.from = Root /\ call.to # Root /\ HasEdge(Edges, Root, call.to)) =>
    /\ Cardinality({i \in 1..Len(call.paths) : call.paths[i].Depth = 1}) = 1
    /\ \E i \in 1..Len(call.paths) : call.paths[i].Path = <<Root, call.to>>
    /\ MinPathDepth(call.paths) = 1

(***************************************************************************)
(* C8 as stated: for every node N with exactly one parent P, every path of *)
(* FindAllPaths(root, N) has P as its second-to-last element.              *)
(***************************************************************************)
SecondToLastIs(p, P) == Len(p) >= 2 /\ p[Len(p) - 1] = P

C8_Original ==
  (Returned /\ call.from = Root) =>
    \A P \in Ids :
      Parents(Edges, call.to) = {P} =>
        \A i \in 1..Len(call.paths) : SecondToLastIs(call.paths[i].Path, P)

(***************************************************************************)
(* C8 amended: for every node N other than the node the search starts from *)
(* that has exactly one parent P, every path of FindAllPaths(root, N) has  *)
(* P as its second-to-last element.                                        *)
(***************************************************************************)
C8_SingleParentIsSecondToLast ==
  (Returned /\ call.to # call.from) =>
    \A P \in Ids :
      Parents(Edges, call.to) = {P} =>
        \A i \in 1..Len(call.paths) : SecondToLastIs(call.paths[i].Path, P)

\* Two routes reach the single parent B of C, and both returned paths end B, C.
C8_Witness ==
  /\ Returned
  /\ call.to # call.from
  /\ Parents(Edges, call.to) = {"B"}
  /\ Len(call.paths) >= 2
  /\ \A i \in 1..Len(call.paths) : SecondToLastIs(call.paths[i].Path, "B")

(***************************************************************************)
(* C1: for every finite edge map, cycles and self-loops included, and      *)
(* every pair (from, to), a FindAllPaths(from, to) call that has started   *)
(* returns (with the finite list of paths it collected).                   *)
(***************************************************************************)
C1_Terminates == (pc = "findPaths") ~> DfsReturned

\* A call returned on a graph with the cycle A -> B -> A and a self-loop.
C1_Witness ==
  /\ DfsReturned
  /\ HasEdge(Edges, "A", "B") /\ HasEdge(Edges, "B", "A")
  /\ \E n \in DfsIds : HasEdge(Edges, n, n)
  /\ call.from = "A"

\* The call-by-call search returns what the recursive definition returns.
DfsMatchesFindAllPaths ==
  DfsReturned => call.paths = FindAllPaths(Edges, call.from, call.to)

\* The nesting of calls never exceeds the number of identities plus one.
DfsStackBounded == Len(stack) <= Cardinality(DfsIds) + 1

(***************************************************************************)
(* Scan results                                                            *)
(***************************************************************************)
ScanOK == pc = "done" /\ err = Nil

\* The root identity of the scan: "" for npm, the main module for Go.
ScanRoot == IF scanner = "npm" THEN "" ELSE mainModule

Reported == {result.Dependencies[i] : i \in 1..Len(result.Dependencies)}

(***************************************************************************)
(* C5: the Depth of every reported dependency N is the minimum Depth over  *)
(* its paths FindAllPaths(root, N), which is the breadth-first shortest    *)
(* distance from the root to N, and -1 when N is unreachable.              *)
(***************************************************************************)
C5_DepthIsShortest ==
  ScanOK =>
    \A d \in Reported :
      /\ d.Depth = MinPathDepth(d.Paths)
      /\ d.Depth = ShortestDepth(result.Graph.Edges, ScanRoot, d.Name)
      /\ (d.Depth = -1) <=> (d.Paths = <<>>)

\* A dependency whose first listed path is longer than its depth, and an
\* unreachable one, in the same result.
C5_Witness ==
  /\ ScanOK
  /\ \E d \in Reported : Len(d.Paths) >= 2 /\ d.Paths[1].Depth > d.Depth
  /\ \E d \in Reported : d.Depth = -1

(***************************************************************************)
(* C9: a Go module is reported with IsDirectDep = true if and only if the  *)
(* tooling record does not mark it Indirect and it is in the direct set    *)
(* read from go.mod; a module of that set that the tooling flags Indirect  *)
(* is reported as indirect.                                                *)
(***************************************************************************)
C9_GoDualCheck ==
  (ScanOK /\ scanner = "go") =>
    \A d \in Reported :
      d.IsDirectDep <=> (~graph.nodes[d.Name].Indirect /\ d.Name \in directDeps)

\* go.mod requires A directly, the tooling flags A Indirect: reported indirect.
C9_Witness ==
  /\ ScanOK /\ scanner = "go"
  /\ "A" \in directDeps
  /\ \E d \in Reported : d.Name = "A" /\ graph.nodes["A"].Indirect /\ ~d.IsDirectDep
  /\ \E d \in Reported : d.IsDirectDep

(***************************************************************************)
(* C10: for every dependency the npm scan reports, IsDirectDep is true if  *)
(* and only if the root "" has a direct edge to it.                        *)
(***************************************************************************)
C10_NpmDirectIffRootEdge ==
  (ScanOK /\ scanner = "npm") =>
    \A d \in Reported :
      d.IsDirectDep <=> HasEdge(result.Graph.Edges, "", d.Name)

\* A development dependency with a root edge and a transitive one without.
C10_Witness ==
  /\ ScanOK /\ scanner = "npm"
  /\ \E d \in Reported :
       d.IsDirectDep /\ d.Properties.dependencyType = "development"
         /\ HasEdge(result.Graph.Edges, "", d.Name)
  /\ \E d \in Reported : ~d.IsDirectDep /\ d.Depth = 2

(***************************************************************************)
(* C11: a scan never returns a successful result with zero dependencies:   *)
(* when the conversion of the graph runs on a graph that has no node       *)
(* besides the root, ScanDependencies (npm and Go) returns a nil result    *)
(* and ErrInvalidProject.                                                  *)
(***************************************************************************)
NonRootNodes(g, root) == DOMAIN g.nodes \ {root}

\* A step that returns from ScanDependencies.
ScanReturns == pc # "done" /\ pc' = "done"

ConversionReturnsInvalidProject ==
  /\ (ScanReturns /\ err' = Nil)
       => (result' # NilResult /\ Len(result'.Dependencies) > 0)
  /\ (ScanReturns /\ pc = "npmResolve" /\ NonRootNodes(graph', "") = {})
       => (result' = NilResult /\ err' = "ErrInvalidProject")
  /\ (ScanReturns /\ pc = "goResolve" /\ NonRootNodes(graph, mainModule) = {})
       => (result' = NilResult /\ err' = "ErrInvalidProject")

C11_NeverEmptySuccess == [][ConversionReturnsInvalidProject]_vars

\* A Go scan whose module list holds the main module alone, although the
\* module graph has an edge from it, ends in ErrInvalidProject.
C11_Witness ==
  /\ pc = "done" /\ scanner = "go"
  /\ mainModule = "M"
  /\ err = "ErrInvalidProject" /\ result = NilResult
  /\ NonRootNodes(graph, mainModule) = {}
  /\ HasEdge(graph.edges, "M", "A")

(***************************************************************************)
(* C12: a successful scan reports exactly one dependency record for every  *)
(* node key of the graph other than the root, no record for the root       *)
(* identity ("" for npm, the main module path for Go) and no record for    *)
(* anything else; Graph.Nodes holds the same set of names.                 *)
(***************************************************************************)
RecordsOf(name) == {i \in 1..Len(result.Dependencies) : result.Dependencies[i].Name = name}

C12_OneRecordPerNonRootNode ==
  ScanOK =>
    /\ \A n \in NonRootNodes(graph, ScanRoot) : Cardinality(RecordsOf(n)) = 1
    /\ RecordsOf(ScanRoot) = {}
    /\ \A d \in Reported : d.Name \in NonRootNodes(graph, ScanRoot)
    /\ DOMAIN result.Graph.Nodes = NonRootNodes(graph, ScanRoot)
    /\ \A n \in DOMAIN result.Graph.Nodes : result.Graph.Nodes[n].Name = n

\* A Go scan of the main module and two others: two records.
C12_Witness ==
  /\ ScanOK /\ scanner = "go"
  /\ DOMAIN graph.nodes = {"M", "A", "B"}
  /\ Len(result.Dependencies) = 2

(***************************************************************************)
(* C13: for every dependency of a scan result, if its Parent field is not  *)
(* empty then IsDirectDep is false.                                        *)
(***************************************************************************)
C13_ParentImpliesIndirect ==
  ScanOK => \A d \in Reported : d.Parent # "" => ~d.IsDirectDep

(***************************************************************************)
(* C14: every dependency of a successful scan result has a non-empty Paths *)
(* list and a Depth greater than 0.                                        *)
(***************************************************************************)
C14_PathsAndDepth ==
  ScanOK => \A d \in Reported : d.Paths # <<>> /\ d.Depth > 0

(***************************************************************************)
(* C15: for every dependency of a Go scan result with IsDirectDep = true,  *)
(* Depth is 1 and the first listed path Paths[0].Path has exactly 2        *)
(* elements.  Stated for the dependencies the main module has an edge to:  *)
(* the others are the unreachable or misclassified ones of C14 and C16.    *)
(***************************************************************************)
C15_GoDirectFirstPath ==
  (ScanOK /\ scanner = "go") =>
    \A d \in Reported :
      (d.IsDirectDep /\ HasEdge(graph.edges, mainModule, d.Name)) =>
        (d.Depth = 1 /\ d.Paths # <<>> /\ Len(d.Paths[1].Path) = 2)

(***************************************************************************)
(* C16: for every dependency of a Go scan result with IsDirectDep = false, *)
(* Depth is greater than 1 and the first listed path Paths[0].Path has     *)
(* more than 2 elements.  Stated for the dependencies that have a path:    *)
(* the others are the unreachable ones of C14.                             *)
(***************************************************************************)
C16_GoIndirectFirstPath ==
  (ScanOK /\ scanner = "go") =>
    \A d \in Reported :
      (~d.IsDirectDep /\ d.Paths # <<>>) =>
        (d.Depth > 1 /\ Len(d.Paths[1].Path) > 2)

(***************************************************************************)
(* C17: for every reported dependency N, a node P other than the root is a *)
(* member of Parents(N) if and only if the edge P -> N exists in the       *)
(* graph.                                                                  *)
(***************************************************************************)
C17_ParentsAreEdgeSources ==
  ScanOK =>
    \A d \in Reported :
      /\ Range(d.Parents) \subseteq DOMAIN result.Graph.Edges
      /\ \A P \in DOMAIN result.Graph.Edges \ {ScanRoot} :
           (P \in Range(d.Parents)) <=> HasEdge(result.Graph.Edges, P, d.Name)

\* A module that the main module and two other nodes require.
C17_Witness ==
  /\ ScanOK /\ scanner = "go"
  /\ \E d \in Reported :
       /\ HasEdge(graph.edges, mainModule, d.Name)
       /\ Cardinality(Range(d.Parents)) = 2
  /\ \E d \in Reported : d.Parents = <<>>

Rescan(name, order) ==
  IF scanner = "npm"
  THEN npmDependency(graph, directDeps, name, order)
  ELSE goDependency(graph, mainModule, directDeps, name, order)

C19_ParentDeterministic ==
  ScanOK =>
    \A d \in Reported :
      /\ d.Parent = (IF d.Parents = <<>> THEN "" ELSE d.Parents[1])
      /\ \A order \in MapOrders : Rescan(d.Name, order).Parent = d.Parent

(***************************************************************************)
(* C20: ScanDependencies returns a nil result whenever it returns an error *)
(* and a non-nil result whenever the error is nil; when DetectProject is   *)
(* false it returns (nil, ErrProjectNotFound) before it reads a manifest,  *)
(* runs a tool or builds a graph, and no later step returns that error.    *)
(***************************************************************************)
NothingRead == UNCHANGED <<pkg, lockFile, graph, mainModule, directDeps>>

NilIffError ==
  ScanReturns => ((err' # Nil) <=> (result' = NilResult))

NotFoundIsFirst ==
  /\ (ScanReturns /\ pc = "start")
       => (result' = NilResult /\ err' = "ErrProjectNotFound" /\ NothingRead)
  /\ (pc = "start" /\ pc' # "done") => (err' = Nil /\ NothingRead)
  /\ (ScanReturns /\ pc # "start") => err' # "ErrProjectNotFound"

C20_NilResultIffError == [][NilIffError /\ NotFoundIsFirst]_vars

\* A Go scan of a directory without go.mod, and nothing was read or run.
C20_Witness ==
  /\ pc = "done" /\ scanner = "go"
  /\ err = "ErrProjectNotFound" /\ result = NilResult
  /\ graph = Nil /\ mainModule = Nil /\ directDeps = Nil

(***************************************************************************)
(* C21: path enumerations for different targets share no mutable state:    *)
(* when FindAllPaths calls for different targets on the same graph are     *)
(* interleaved in any order, each call returns the result it returns when  *)
(* it runs alone.                                                          *)
(***************************************************************************)
C21_InterleavedCallsAgree ==
  \A c \in Callers :
    calls[c].pc = "returned" =>
      calls[c].results = FindAllPaths(Edges, Root, calls[c].to)

\* One call has returned a path through the root while the other, started
\* with it, is inside its search with the root marked in its own map.
C21_Witness ==
  /\ pc = "parallel"
  /\ calls["c1"].pc = "returned" /\ calls["c1"].results # <<>>
  /\ calls["c1"].to # Root
  /\ calls["c2"].pc = "findPaths" /\ calls["c2"].visited[Root]
  /\ Len(calls["c2"].stack) >= 2

(***************************************************************************)
(* C22: for npm, the dependencyType property of a package declared in      *)
(* package.json is its declared section (production, development, peer or  *)
(* optional; declared in several, the later of that order wins), and for a *)
(* package not declared in package.json it is development when the lock    *)
(* entry has dev = true and production otherwise.                          *)
(***************************************************************************)
\* The lock entry the node name comes from.
LockEntry(name) ==
  IF Cardinality(DOMAIN lockFile.Packages) > 0
  THEN lockFile.Packages[CHOOSE path \in DOMAIN lockFile.Packages \ {RootPath} :
                           Join(TrimPrefix(path)) = name]
  ELSE lockFile.Dependencies[name]

DeclaredType(name) ==
  IF name \in pkg.OptionalDependencies THEN "optional"
  ELSE IF name \in pkg.PeerDependencies THEN "peer"
  ELSE IF name \in pkg.DevDependencies THEN "development"
  ELSE IF name \in pkg.Dependencies THEN "production"
  ELSE IF LockEntry(name).Dev THEN "development"
  ELSE "production"

NpmConverted == pc = "done" /\ scanner = "npm" /\ err \in {Nil, "ErrInvalidProject"}

C22_NpmDependencyType ==
  /\ NpmConverted =>
       \A name \in DOMAIN graph.metadata :
         graph.metadata[name].dependencyType = DeclaredType(name)
  /\ (ScanOK /\ scanner = "npm") =>
       \A d \in Reported : d.Properties.dependencyType = DeclaredType(d.Name)

\* A package declared as a production and as an optional dependency, and an
\* undeclared one whose lock entry is dev.
C22_Witness ==
  /\ ScanOK /\ scanner = "npm"
  /\ \E d \in Reported :
       /\ d.Name \in pkg.Dependencies \cap pkg.OptionalDependencies
       /\ d.Properties.dependencyType = "optional"
  /\ \E d \in Reported :
       /\ d.Name \notin DOMAIN directDeps
       /\ d.Properties.dependencyType = "development"

(***************************************************************************)
(* C23: dangling edges degrade gracefully.  An edge target without an      *)
(* entry in Edges (the engine reads no node records) is a leaf:            *)
(* FindAllPaths returns, returns every simple path that ends at it when it *)
(* is the target, and for every other target returns what it returns on    *)
(* the graph without the edges to it.                                      *)
(***************************************************************************)
Dangling(E, x) == E[x] = <<>> /\ \E p \in DOMAIN E : HasEdge(E, p, x)

WithoutEdgesTo(E, x) ==
  [n \in DOMAIN E |-> SelectSeq(E[n], LAMBDA t : t # x)]

C23_DanglingIsLeaf ==
  Returned =>
    \A x \in Ids :
      Dangling(Edges, x) =>
        /\ (call.to = x) =>
             /\ PathSet(call.paths) = SimplePaths(Edges, call.from, x)
             /\ Reachable(Edges, call.from, x) => call.paths # <<>>
        /\ (call.to # x) =>
             call.paths = FindAllPaths(WithoutEdgesTo(Edges, x), call.from, call.to)

\* The target is dangling and two paths end at it.
C23_Witness ==
  /\ Returned
  /\ Dangling(Edges, call.to)
  /\ call.from # call.to
  /\ Cardinality(PathSet(call.paths)) >= 2

(***************************************************************************)
(* C24: the graph is read-only during resolution.  The nodes and edges of   *)
(* the scanner's graph are not written between the collector and the       *)
(* return of the scan (its metadata maps are: see WithProperties), the     *)
(* edge map handed to the result (Graph.Edges) is the map the collector    *)
(* built, and the paths of every dependency are those FindAllPaths finds   *)
(* on that map: no enumeration changed it for the next one.                *)
(***************************************************************************)
GraphKept ==
  /\ (pc \in {"findMainModule", "getDirectDependencies", "goResolve"})
       => (graph'.edges = graph.edges /\ graph'.nodes = graph.nodes)
  /\ (ScanReturns /\ err' = Nil) =>
       /\ result'.Graph.Edges = graph'.edges
       /\ \A i \in 1..Len(result'.Dependencies) :
            LET d == result'.Dependencies[i] IN
              /\ d.Paths = FindAllPaths(graph'.edges,
                                        IF scanner' = "npm" THEN "" ELSE mainModule',
                                        d.Name)
              /\ d.Name \in DOMAIN graph'.nodes

C24_GraphReadOnly == [][GraphKept]_vars

\* The graph calls of the engine leave Edges as they found it.
EnginePreservesEdges == [][(pc # "build" \/ pc' # "build") => Edges' = Edges]_vars

\* A Go scan of two dependencies with paths over three edges.
C24_Witness ==
  /\ ScanOK /\ scanner = "go"
  /\ Len(result.Dependencies) = 2
  /\ \A d \in Reported : d.Paths # <<>>
  /\ SumLen(result.Graph.Edges, DOMAIN result.Graph.Edges) = 3
  /\ result.Graph.Edges = graph.edges

(***************************************************************************)
(* C25: FindAllPaths(from, to) never returns the same node sequence twice, *)
(* also when the adjacency list of a node names the same target more than  *)
(* once.  Stated for the calls the scanners make: from the root, for a     *)
(* target other than the root.                                             *)
(***************************************************************************)
C25_NoDuplicatePaths ==
  (Returned /\ call.from = Root /\ call.to # Root) =>
    \A i, j \in 1..Len(call.paths) :
      i # j => call.paths[i].Path # call.paths[j].Path

(***************************************************************************)
(* C26: the Parents list of every reported dependency is a set: no parent  *)
(* identity occurs in it more than once, whatever the adjacency lists      *)
(* contain.  Stated for the parents other than the dependency itself.      *)
(***************************************************************************)
C26_ParentsIsSet ==
  ScanOK =>
    \A d \in Reported :
      NoRepeat(SelectSeq(d.Parents, LAMBDA P : P # d.Name))

(***************************************************************************)
(* C27: when package-lock.json lists its packages only in the legacy       *)
(* `dependencies` format (no `packages` section), the npm scan succeeds    *)
(* and reports one dependency per listed package.                          *)
(***************************************************************************)
LegacyLock ==
  /\ NpmConverted
  /\ DOMAIN lockFile.Packages = {}
  /\ DOMAIN lockFile.Dependencies # {}

C27_LegacyFormatReported ==
  LegacyLock =>
    /\ err = Nil
    /\ {d.Name : d \in Reported} = DOMAIN lockFile.Dependencies
    /\ Len(result.Dependencies) = Cardinality(DOMAIN lockFile.Dependencies)

(***************************************************************************)
(* C28: for every dependency of a Go scan result, the dependencyType       *)
(* property is "direct" exactly when IsDirectDep is true and "indirect"    *)
(* exactly when IsDirectDep is false.                                      *)
(***************************************************************************)
C28_GoTypeMatchesIsDirect ==
  (ScanOK /\ scanner = "go") =>
    \A d \in Reported :
      /\ (d.Properties.dependencyType = "direct") <=> d.IsDirectDep
      /\ (d.Properties.dependencyType = "indirect") <=> ~d.IsDirectDep

====
